---- MODULE Spec2Model ----
(***************************************************************************)
(* Model of the simulation core of volatility_impact_on_returns2.ipynb:    *)
(* generate_return_rates, calculate_fund_returns, make_mutual_fund, the    *)
(* trial cell (num_trials, fund1_end_returns_per_trial) and the goal       *)
(* probability cells.                                                      *)
(*                                                                         *)
(* Numbers: Python floats are modelled as exact rationals <<n, d>> in      *)
(* lowest terms with d > 0, so that percent / 100 and principal * (1 + r)  *)
(* are computed, not assumed.  Binary rounding of floats is not modelled.  *)
(*                                                                         *)
(* Two specifications:                                                     *)
(*   SpecFn  the three functions called once on arguments drawn from       *)
(*           bounded sets;                                                 *)
(*   Spec    the notebook kernel: the trial cell and the goal probability  *)
(*           cells, run in any order and any number of times.              *)
(***************************************************************************)
EXTENDS Integers, Sequences, FiniteSets

VARIABLES
    args,        \* SpecFn: the call under test (function name and arguments)
    ret,         \* SpecFn: what the call returned or raised
    sampled,     \* SpecFn: the array generate_return_rates gave make_mutual_fund
    fund,        \* Spec: the constants of get_fund1_returns
    defined,     \* Spec: names bound in the kernel namespace
    num_trials,  \* Spec: the global num_trials
    batch,       \* Spec: the global fund1_end_returns_per_trial
    pc,          \* Spec: "idle", or "trials" while the trial cell runs
    acc,         \* Spec: the list the comprehension is building
    trajs,       \* Spec: the trajectory each get_fund1_returns() call returned
    calls,       \* Spec: get_fund1_returns() calls made by the running trial cell
    rng,         \* SpecRng: the state of numpy's global random generator
    out          \* Spec: what the last executed cell printed or raised

vars == <<args, ret, sampled, fund, defined, num_trials, batch, pc, acc, trajs, calls,
          rng, out>>

fnVars == <<args, ret, sampled>>
nbVars == <<fund, defined, num_trials, batch, pc, acc, trajs, calls, rng, out>>

----------------------------------------------------------------------------
(* Bounds *)

MaxLen == 3
MaxYears == 2
MaxTrials == 2
\* values of the generator's stream a session may consume
MaxDraws == 4

----------------------------------------------------------------------------
(* Exact rational arithmetic standing for Python float arithmetic *)

Abs(x) == IF x < 0 THEN -x ELSE x

RECURSIVE GCD(_, _)
GCD(a, b) == IF b = 0 THEN a ELSE GCD(b, a % b)

Norm(n, d) ==
    LET g == GCD(Abs(n), Abs(d))
        s == IF d < 0 THEN -1 ELSE 1
    IN  <<(s * n) \div g, (s * d) \div g>>

RInt(n) == <<n, 1>>
RAdd(a, b) == Norm(a[1] * b[2] + b[1] * a[2], a[2] * b[2])
RMul(a, b) == Norm(a[1] * b[1], a[2] * b[2])
RDivInt(a, k) == Norm(a[1], a[2] * k)
RGe(a, b) == a[1] * b[2] >= b[1] * a[2]

Last(s) == s[Len(s)]

----------------------------------------------------------------------------
(* Input domains *)

\* values one draw of the standard normal is restricted to
StdNormal == {-2, 0}
Means == {0, 10}
Stds == {0, 50}
Additions == {0, 1000}
Contributions == {-100, 0, 1000}
Principals == {0, 1000}
Rates == {<<-1, 1>>, <<0, 1>>, <<1, 10>>}
Thresholds == {1000, 2000}

ReturnSeqs == UNION {[1..n -> Rates] : n \in 0..MaxLen}

----------------------------------------------------------------------------
(* The simulation functions *)

\* np.random.randn(years): the arrays it can return; it raises ValueError
\* for a negative dimension
\* variant: an empty dimension is refused as well
randn_raises_on_zero(years) == years <= 0
randn_raises(years) == years < 0
\* variant: one draw too few
randn_short(years) == [1..(years - 1) -> StdNormal]
randn(years) == [1..years -> StdNormal]

\* return_mean + return_std * np.random.randn(years), z being the drawn array
generate_return_rates(return_mean, return_std, z) ==
    [k \in DOMAIN z |-> return_mean + return_std * z[k]]

\* the default of the parameter starting_principal
DefaultStartingPrincipal == 0

\* variant: growth/loss first, contribution after
YearStep_contribution_after(principal, contribution_per_year, return_rate) ==
    RAdd(RMul(principal, RAdd(RInt(1), return_rate)), contribution_per_year)
\* variant: multiplies by the rate itself, not by 1 + rate
YearStep_rate_only(principal, contribution_per_year, return_rate) ==
    RMul(RAdd(principal, contribution_per_year), return_rate)
\* variant: the carried principal is dropped, only the contribution grows
YearStep_drops_principal(principal, contribution_per_year, return_rate) ==
    RMul(contribution_per_year, RAdd(RInt(1), return_rate))
\* one pass of the loop body: contribution first, then growth/loss
YearStep(principal, contribution_per_year, return_rate) ==
    LET withContribution == RAdd(principal, contribution_per_year)
    IN  RMul(withContribution, RAdd(RInt(1), return_rate))

\* the for loop over returns_by_year, appending each year's principal
RECURSIVE ForEachReturn(_, _, _, _)
ForEachReturn(principal, value_by_year, contribution_per_year, rest) ==
    IF rest = <<>>
    THEN value_by_year
    ELSE LET p == YearStep(principal, contribution_per_year, Head(rest))
         IN  ForEachReturn(p, Append(value_by_year, p), contribution_per_year, Tail(rest))

\* variant: the trajectory starts with the starting principal
calculate_fund_returns_seeded(contribution_per_year, returns_by_year, starting_principal) ==
    ForEachReturn(starting_principal, <<starting_principal>>, contribution_per_year,
                  returns_by_year)
\* variant: the loop starts from 0 whatever starting_principal is
calculate_fund_returns_from_zero(contribution_per_year, returns_by_year, starting_principal) ==
    ForEachReturn(RInt(0), <<>>, contribution_per_year, returns_by_year)
calculate_fund_returns(contribution_per_year, returns_by_year, starting_principal) ==
    ForEachReturn(starting_principal, <<>>, contribution_per_year, returns_by_year)

\* variant: the sampled percents are used as rates, never divided by 100
make_mutual_fund_percent_as_rate(return_mean, return_std, yearly_addition, z) ==
    LET percents == generate_return_rates(return_mean, return_std, z)
        fund_return_rates == [k \in DOMAIN percents |-> RInt(percents[k])]
    IN  calculate_fund_returns(RInt(yearly_addition), fund_return_rates,
                               RInt(DefaultStartingPrincipal))
\* z is the array np.random.randn(years) returns inside generate_return_rates
make_mutual_fund(return_mean, return_std, yearly_addition, z) ==
    LET percents == generate_return_rates(return_mean, return_std, z)
        fund_return_rates == [k \in DOMAIN percents |-> RDivInt(RInt(percents[k]), 100)]
    IN  calculate_fund_returns(RInt(yearly_addition), fund_return_rates,
                               RInt(DefaultStartingPrincipal))

----------------------------------------------------------------------------
(* SpecFn: one call of one function on drawn arguments *)

NoArgs == [fn |-> "none", contribution_per_year |-> 0, returns_by_year |-> <<>>,
           starting_principal |-> 0, return_mean |-> 0, return_std |-> 0,
           years |-> 0, yearly_addition |-> 0]

CalcArgs == {[NoArgs EXCEPT !.fn = "calculate_fund_returns",
                            !.contribution_per_year = c,
                            !.returns_by_year = rs,
                            !.starting_principal = p0] :
                c \in Contributions, rs \in ReturnSeqs, p0 \in Principals}

FundArgs == {[NoArgs EXCEPT !.fn = f, !.return_mean = m, !.return_std = sd,
                            !.years = y, !.yearly_addition = a] :
                f \in {"generate_return_rates", "make_mutual_fund"},
                m \in Means, sd \in Stds, y \in -1..MaxYears, a \in Additions}

NoRet == [kind |-> "none", value |-> <<>>, exc |-> ""]
Returned(v) == [kind |-> "value", value |-> v, exc |-> ""]
Raised(e) == [kind |-> "raise", value |-> <<>>, exc |-> e]

\* the generator as the specifications that leave the draws open carry it
NoRng == [stream |-> <<>>, pos |-> 0, written |-> FALSE, shared_read |-> FALSE]
NoFund == [return_mean |-> 0, return_std |-> 0, years |-> 0, yearly_addition |-> 0]
NoOut == [kind |-> "none", threshold |-> 0, value |-> <<0, 1>>, exc |-> ""]

NotebookIdle ==
    /\ fund = NoFund
    /\ defined = {}
    /\ num_trials = 0
    /\ batch = <<>>
    /\ pc = "off"
    /\ acc = <<>>
    /\ trajs = <<>>
    /\ calls = 0
    /\ rng = NoRng
    /\ out = NoOut

InitFn ==
    /\ args \in CalcArgs \cup FundArgs
    /\ ret = NoRet
    /\ sampled = <<>>
    /\ NotebookIdle

CallCalculate ==
    /\ args.fn = "calculate_fund_returns"
    /\ ret.kind = "none"
    /\ ret' = Returned(calculate_fund_returns(RInt(args.contribution_per_year),
                                              args.returns_by_year,
                                              RInt(args.starting_principal)))
    /\ UNCHANGED <<args, sampled, nbVars>>

CallGenerate ==
    /\ args.fn = "generate_return_rates"
    /\ ret.kind = "none"
    /\ ~randn_raises(args.years)
    /\ \E z \in randn(args.years) :
          LET percents == generate_return_rates(args.return_mean, args.return_std, z)
          IN  ret' = Returned([k \in DOMAIN percents |-> RInt(percents[k])])
    /\ UNCHANGED <<args, sampled, nbVars>>

CallMakeMutualFund ==
    /\ args.fn = "make_mutual_fund"
    /\ ret.kind = "none"
    /\ ~randn_raises(args.years)
    /\ \E z \in randn(args.years) :
          /\ sampled' = generate_return_rates(args.return_mean, args.return_std, z)
          /\ ret' = Returned(make_mutual_fund(args.return_mean, args.return_std,
                                              args.yearly_addition, z))
    /\ UNCHANGED <<args, nbVars>>

\* years < 0: np.random.randn raises before anything is drawn
CallRaises ==
    /\ args.fn \in {"generate_return_rates", "make_mutual_fund"}
    /\ ret.kind = "none"
    /\ randn_raises(args.years)
    /\ ret' = Raised("ValueError")
    /\ UNCHANGED <<args, sampled, nbVars>>

NextFn == CallCalculate \/ CallGenerate \/ CallMakeMutualFund \/ CallRaises

SpecFn == InitFn /\ [][NextFn]_vars

----------------------------------------------------------------------------
(* Spec: the notebook kernel *)

\* the constants of a fund definition such as get_fund1_returns: at least
\* one year and a non-zero yearly addition, as every fund of the notebook
\* has; the volatile funds modelled are those around a zero mean
FundDefs == {f \in [return_mean : Means, return_std : Stds, years : 1..MaxYears,
                    yearly_addition : Additions \ {0}] :
                f.return_std = 0 \/ f.return_mean = 0}

\* def get_fund1_returns(): return make_mutual_fund(<the fund's constants>)
get_fund1_returns(z) ==
    make_mutual_fund(fund.return_mean, fund.return_std, fund.yearly_addition, z)

\* variant: the first year's value is taken
FinalValue_first(trajectory) == trajectory[1]
\* get_fund1_returns()[-1]
FinalValue(trajectory) == Last(trajectory)

\* variant: the comprehension runs once more than num_trials
TrialsLeft_one_more == Len(acc) < num_trials + 1
\* for i in range(num_trials): one value is appended per pass
TrialsLeft == Len(acc) < num_trials

\* variant: a value equal to the threshold does not count
MeetsGoal_strict(v, t) == v[1] > t * v[2]
\* variant: the comparison is turned around
MeetsGoal_reversed(v, t) == v[1] <= t * v[2]
\* i >= 450000
MeetsGoal(v, t) == RGe(v, RInt(t))

Init ==
    /\ args = NoArgs
    /\ ret = NoRet
    /\ sampled = <<>>
    /\ fund \in FundDefs
    /\ defined = {}
    /\ num_trials = 0
    /\ batch = <<>>
    /\ pc = "idle"
    /\ acc = <<>>
    /\ trajs = <<>>
    /\ calls = 0
    /\ rng = NoRng
    /\ out = NoOut

\* the trial cell starts: num_trials = n, then the comprehension begins
BindNumTrials(n) ==
    /\ pc = "idle"
    /\ num_trials' = n
    /\ defined' = defined \cup {"num_trials"}
    /\ pc' = "trials"
    /\ acc' = <<>>
    /\ trajs' = <<>>
    /\ calls' = 0
    /\ out' = NoOut
    /\ UNCHANGED <<fnVars, rng, fund, batch>>

StartTrialCell == \E n \in 1..MaxTrials : BindNumTrials(n)

\* get_fund1_returns()[-1] appended to the list under construction, z being
\* the array drawn inside the call
TrialWith(z) ==
    LET trajectory == get_fund1_returns(z)
    IN  /\ trajectory # <<>>
        /\ acc' = Append(acc, FinalValue(trajectory))
        /\ trajs' = Append(trajs, trajectory)

\* one pass of the comprehension: get_fund1_returns()[-1].  randn raises for
\* years < 0 and [-1] raises on an empty trajectory; no fund of FundDefs
\* takes either path.
RunTrial ==
    /\ pc = "trials"
    /\ TrialsLeft
    /\ ~randn_raises(fund.years)
    /\ \E z \in randn(fund.years) : TrialWith(z)
    /\ calls' = calls + 1
    /\ UNCHANGED <<fnVars, rng, fund, defined, num_trials, batch, pc, out>>

\* the comprehension is exhausted: its list is bound to the batch name
FinishTrialCell ==
    /\ pc = "trials"
    /\ ~TrialsLeft
    /\ batch' = acc
    /\ defined' = defined \cup {"fund1_end_returns_per_trial"}
    /\ pc' = "idle"
    /\ acc' = <<>>
    /\ UNCHANGED <<fnVars, rng, fund, num_trials, trajs, calls, out>>

ReportNames == {"fund1_end_returns_per_trial", "num_trials"}

\* len([i for i in fund1_end_returns_per_trial if i >= t]) / num_trials
GoalProbability(t) ==
    LET reached == SelectSeq(batch, LAMBDA v : MeetsGoal(v, t))
    IN  RDivInt(RInt(Len(reached)), num_trials)

\* len([i for i in fund1_end_returns_per_trial if i >= t]) / num_trials
\* (the division raises for num_trials = 0, which StartTrialCell never binds)
GoalProbabilityCell ==
    /\ pc = "idle"
    /\ ReportNames \subseteq defined
    /\ num_trials # 0
    /\ \E t \in Thresholds :
          out' = [kind |-> "prob", threshold |-> t, value |-> GoalProbability(t),
                  exc |-> ""]
    /\ UNCHANGED <<fnVars, rng, fund, defined, num_trials, batch, pc, acc, trajs, calls>>

\* variant: the first value is left out of the sum
PySum_from_second(values) ==
    LET RECURSIVE Go(_, _)
        Go(total, rest) == IF rest = <<>> THEN total
                           ELSE Go(RAdd(total, Head(rest)), Tail(rest))
    IN  IF values = <<>> THEN RInt(0) ELSE Go(RInt(0), Tail(values))
\* sum(values): from 0, adding the values left to right
PySum(values) ==
    LET RECURSIVE Go(_, _)
        Go(total, rest) == IF rest = <<>> THEN total
                           ELSE Go(RAdd(total, Head(rest)), Tail(rest))
    IN  Go(RInt(0), values)

\* sum(fund1_end_returns_per_trial) / num_trials
ExpectedReturnCell ==
    /\ pc = "idle"
    /\ ReportNames \subseteq defined
    /\ num_trials # 0
    /\ out' = [kind |-> "mean", threshold |-> 0,
               value |-> RDivInt(PySum(batch), num_trials), exc |-> ""]
    /\ UNCHANGED <<fnVars, rng, fund, defined, num_trials, batch, pc, acc, trajs, calls>>

\* the cell is run before the trial cell has bound the names it reads
ExpectedReturnNameError ==
    /\ pc = "idle"
    /\ ~(ReportNames \subseteq defined)
    /\ out' = [kind |-> "raise", threshold |-> 0, value |-> <<0, 1>>,
               exc |-> "NameError in expected return"]
    /\ UNCHANGED <<fnVars, rng, fund, defined, num_trials, batch, pc, acc, trajs, calls>>

\* the cell is run before the trial cell has bound the names it reads
GoalProbabilityNameError ==
    /\ pc = "idle"
    /\ ~(ReportNames \subseteq defined)
    /\ out' = [kind |-> "raise", threshold |-> 0, value |-> <<0, 1>>, exc |-> "NameError"]
    /\ UNCHANGED <<fnVars, rng, fund, defined, num_trials, batch, pc, acc, trajs, calls>>

Next == StartTrialCell \/ RunTrial \/ FinishTrialCell \/ GoalProbabilityCell
            \/ GoalProbabilityNameError \/ ExpectedReturnCell
            \/ ExpectedReturnNameError

Spec == Init /\ [][Next]_vars

----------------------------------------------------------------------------
(* SpecValid, SpecAny: the notebook kernel with the fund constants and
   num_trials taken from wider domains, where a trial can raise.
   SpecValid: years >= 0, std >= 0, num_trials >= 1.
   SpecAny: also years < 0, std < 0 and num_trials <= 0. *)

FundDefsValid == {f \in [return_mean : Means, return_std : Stds, years : 0..MaxYears,
                         yearly_addition : Additions \ {0}] :
                     f.return_std = 0 \/ f.return_mean = 0}

FundDefsAny == {f \in [return_mean : Means, return_std : Stds \cup {-50},
                       years : -1..MaxYears, yearly_addition : Additions \ {0}] :
                   f.return_std = 0 \/ f.return_mean = 0}

KernelStart ==
    /\ args = NoArgs
    /\ ret = NoRet
    /\ sampled = <<>>
    /\ defined = {}
    /\ num_trials = 0
    /\ batch = <<>>
    /\ pc = "idle"
    /\ acc = <<>>
    /\ trajs = <<>>
    /\ calls = 0
    /\ out = NoOut

InitValid == fund \in FundDefsValid /\ rng = NoRng /\ KernelStart
InitAny == fund \in FundDefsAny /\ rng = NoRng /\ KernelStart

\* num_trials is bound to whatever the cell says; nothing checks it
StartTrialCellAny == \E n \in -1..MaxTrials : BindNumTrials(n)

RaisedInCell(e) == [kind |-> "raise", threshold |-> 0, value |-> <<0, 1>>, exc |-> e]

\* get_fund1_returns() raises inside np.random.randn (years < 0): the
\* comprehension is abandoned, the names bound so far stay as they are
TrialValueError ==
    /\ pc = "trials"
    /\ TrialsLeft
    /\ randn_raises(fund.years)
    /\ calls' = calls + 1
    /\ pc' = "idle"
    /\ acc' = <<>>
    /\ out' = RaisedInCell("ValueError")
    /\ UNCHANGED <<fnVars, rng, fund, defined, num_trials, batch, trajs>>

\* variant: the values gathered so far are bound to the batch name
TrialIndexError_binds_partial ==
    /\ pc = "trials"
    /\ TrialsLeft
    /\ ~randn_raises(fund.years)
    /\ \E z \in randn(fund.years) :
          /\ get_fund1_returns(z) = <<>>
          /\ trajs' = Append(trajs, <<>>)
    /\ calls' = calls + 1
    /\ pc' = "idle"
    /\ acc' = <<>>
    /\ batch' = acc
    /\ defined' = defined \cup {"fund1_end_returns_per_trial"}
    /\ out' = RaisedInCell("IndexError")
    /\ UNCHANGED <<fnVars, rng, fund, num_trials>>
\* get_fund1_returns() returns an empty trajectory (years = 0) and [-1]
\* raises: the comprehension is abandoned, the batch name is not rebound
TrialIndexError ==
    /\ pc = "trials"
    /\ TrialsLeft
    /\ ~randn_raises(fund.years)
    /\ \E z \in randn(fund.years) :
          /\ get_fund1_returns(z) = <<>>
          /\ trajs' = Append(trajs, <<>>)
    /\ calls' = calls + 1
    /\ pc' = "idle"
    /\ acc' = <<>>
    /\ out' = RaisedInCell("IndexError")
    /\ UNCHANGED <<fnVars, rng, fund, defined, num_trials, batch>>

\* len([...]) / num_trials with num_trials = 0
GoalProbabilityZeroDivision ==
    /\ pc = "idle"
    /\ ReportNames \subseteq defined
    /\ num_trials = 0
    /\ out' = RaisedInCell("ZeroDivisionError")
    /\ UNCHANGED <<fnVars, rng, fund, defined, num_trials, batch, pc, acc, trajs, calls>>

\* sum(...) / num_trials with num_trials = 0
ExpectedReturnZeroDivision ==
    /\ pc = "idle"
    /\ ReportNames \subseteq defined
    /\ num_trials = 0
    /\ out' = RaisedInCell("ZeroDivisionError in expected return")
    /\ UNCHANGED <<fnVars, rng, fund, defined, num_trials, batch, pc, acc, trajs, calls>>

NextValid == Next \/ TrialIndexError

SpecValid == InitValid /\ [][NextValid]_vars

NextAny == StartTrialCellAny \/ RunTrial \/ FinishTrialCell \/ TrialValueError
              \/ TrialIndexError \/ GoalProbabilityCell \/ GoalProbabilityNameError
              \/ GoalProbabilityZeroDivision \/ ExpectedReturnCell
              \/ ExpectedReturnNameError \/ ExpectedReturnZeroDivision

SpecAny == InitAny /\ [][NextAny]_vars

----------------------------------------------------------------------------
(* SpecRng: the trial cell with numpy's global generator made explicit.
   np.random.randn draws from one generator held by the numpy module: a
   call reads the generator's state, returns the next values of its stream
   and leaves the state advanced.  The stream is fixed when the kernel
   starts (seeding); every stream over StdNormal is considered. *)

Streams == [1..MaxDraws -> StdNormal]

\* variant: every call draws from the beginning of the stream
randn_from_reseeded(g, years) == [k \in 1..years |-> g.stream[k]]
\* np.random.randn(years) on generator state g: the next `years` values
randn_from(g, years) == [k \in 1..years |-> g.stream[g.pos + k]]

\* the state the call leaves behind; written and shared_read record that a
\* trial has written the state and that a later trial has read it
advance(g, years) ==
    [g EXCEPT !.pos = @ + years, !.written = TRUE, !.shared_read = @ \/ g.written]

InitRng ==
    /\ fund \in FundDefs
    /\ rng \in {[stream |-> st, pos |-> 0, written |-> FALSE, shared_read |-> FALSE] :
                   st \in Streams}
    /\ KernelStart

\* one pass of the comprehension, drawing from the global generator
RunTrialSeeded ==
    /\ pc = "trials"
    /\ TrialsLeft
    /\ ~randn_raises(fund.years)
    /\ rng.pos + fund.years <= MaxDraws
    /\ TrialWith(randn_from(rng, fund.years))
    /\ rng' = advance(rng, fund.years)
    /\ calls' = calls + 1
    /\ UNCHANGED <<fnVars, fund, defined, num_trials, batch, pc, out>>

NextRng == StartTrialCell \/ RunTrialSeeded \/ FinishTrialCell

SpecRng == InitRng /\ [][NextRng]_vars

----------------------------------------------------------------------------
(* Properties of the functions, checked under SpecFn *)

CalcReturned == args.fn = "calculate_fund_returns" /\ ret.kind = "value"
FundReturned == args.fn = "make_mutual_fund" /\ ret.kind = "value"

\* (prev + c) * (1 + r) for a rational prev, an integer c and a rational r
AddThenGrow(prev, c, r) == Norm((prev[1] + c * prev[2]) * (r[2] + r[1]), prev[2] * r[2])
\* prev * (1 + r) + c
GrowThenAdd(prev, c, r) ==
    Norm(prev[1] * (r[2] + r[1]) + c * prev[2] * r[2], prev[2] * r[2])

\* C1: every entry of the trajectory calculate_fund_returns returns is
\* (prev + c) * (1 + returns[i]), prev being the starting principal for the
\* first entry and the previous entry otherwise: the contribution is added
\* before the year's multiplier is applied, for negative c as for any other.
C1_ContributionBeforeReturn ==
    CalcReturned =>
        \A i \in DOMAIN ret.value :
            /\ i \in DOMAIN args.returns_by_year
            /\ ret.value[i] =
                 AddThenGrow(IF i = 1 THEN RInt(args.starting_principal)
                                      ELSE ret.value[i - 1],
                             args.contribution_per_year,
                             args.returns_by_year[i])

\* a negative contribution over two years where adding it after the return
\* would give another value
C1_Witness ==
    /\ CalcReturned
    /\ args.contribution_per_year < 0
    /\ Len(ret.value) >= 2
    /\ ret.value[2] # GrowThenAdd(ret.value[1], args.contribution_per_year,
                                  args.returns_by_year[2])

\* C2: the trajectory has exactly one entry per return rate, the call never
\* raises, and an empty returns_by_year gives an empty trajectory.
C2_TrajectoryLength ==
    args.fn = "calculate_fund_returns" =>
        /\ ret.kind # "raise"
        /\ ret.kind = "value" => Len(ret.value) = Len(args.returns_by_year)

C2_Witness ==
    /\ CalcReturned
    /\ args.returns_by_year = <<>>
    /\ ret.value = <<>>

\* C3: for years >= 0 generate_return_rates returns exactly `years` rates
\* (it raises only for years < 0), and so does every trajectory
\* make_mutual_fund returns.
C3_SampleLength ==
    /\ (args.fn = "generate_return_rates" /\ ret.kind = "value")
          => Len(ret.value) = args.years
    /\ FundReturned => Len(sampled) = args.years /\ Len(ret.value) = args.years
    /\ (args.fn \in {"generate_return_rates", "make_mutual_fund"} /\ ret.kind = "raise")
          => args.years < 0

C3_Witness ==
    /\ FundReturned
    /\ args.years >= 2
    /\ Len(ret.value) = args.years

AllZero(rs) == \A i \in DOMAIN rs : rs[i] = <<0, 1>>

\* C4: with every return rate 0 the trajectory is pure accumulation,
\* entry i (counted from 1) being starting_principal + i * contribution.
C4_ZeroReturnAccumulates ==
    (CalcReturned /\ AllZero(args.returns_by_year)) =>
        /\ Len(ret.value) = Len(args.returns_by_year)
        /\ \A i \in DOMAIN ret.value :
              ret.value[i] = RInt(args.starting_principal + i * args.contribution_per_year)

\* contribution 1000, returns [0, 0, 0], starting principal 0 -> [1000, 2000, 3000]
C4_Witness ==
    /\ CalcReturned
    /\ args.contribution_per_year = 1000
    /\ args.starting_principal = 0
    /\ args.returns_by_year = << <<0, 1>>, <<0, 1>>, <<0, 1>> >>
    /\ ret.value = << <<1000, 1>>, <<2000, 1>>, <<3000, 1>> >>

\* (1 + rs[1]) * ... * (1 + rs[i])
RECURSIVE Growth(_, _)
Growth(rs, i) ==
    IF i = 0 THEN <<1, 1>>
    ELSE LET g == Growth(rs, i - 1)
         IN  Norm(g[1] * (rs[i][2] + rs[i][1]), g[2] * rs[i][2])

\* C5: with contribution 0 the trajectory is pure compounding, entry i being
\* starting_principal * (1 + returns[1]) * ... * (1 + returns[i]); with
\* starting principal 0 every entry is 0.
C5_ZeroContributionCompounds ==
    (CalcReturned /\ args.contribution_per_year = 0) =>
        /\ Len(ret.value) = Len(args.returns_by_year)
        /\ \A i \in DOMAIN ret.value :
              LET g == Growth(args.returns_by_year, i)
              IN  /\ ret.value[i] = Norm(args.starting_principal * g[1], g[2])
                  /\ args.starting_principal = 0 => ret.value[i] = <<0, 1>>

\* contribution 0, returns [0.10, 0.10], starting principal 1000 -> [1100, 1210]
C5_Witness ==
    /\ CalcReturned
    /\ args.contribution_per_year = 0
    /\ args.starting_principal = 1000
    /\ args.returns_by_year = << <<1, 10>>, <<1, 10>> >>
    /\ ret.value = << <<1100, 1>>, <<1210, 1>> >>

\* C6: a return of -1 leaves 0 in that year whatever came before, and the
\* next year's value is contribution * (1 + next return).
C6_TotalLossWipesOut ==
    CalcReturned =>
        \A i \in DOMAIN args.returns_by_year :
            args.returns_by_year[i] = <<-1, 1>> =>
                /\ i \in DOMAIN ret.value
                /\ ret.value[i] = <<0, 1>>
                /\ (i + 1) \in DOMAIN args.returns_by_year =>
                      /\ (i + 1) \in DOMAIN ret.value
                      /\ ret.value[i + 1] =
                           LET r == args.returns_by_year[i + 1]
                           IN  Norm(args.contribution_per_year * (r[2] + r[1]), r[2])

\* a total loss in the second of three years, after a year that left money
\* in the account, with a non-zero contribution
C6_Witness ==
    /\ CalcReturned
    /\ args.contribution_per_year = 1000
    /\ Len(args.returns_by_year) = 3
    /\ args.returns_by_year[2] = <<-1, 1>>
    /\ ret.value[1] # <<0, 1>>
    /\ ret.value[2] = <<0, 1>>
    /\ ret.value[3] = <<1100, 1>>

\* C7: the trajectory make_mutual_fund returns is the accumulation of
\* yearly_addition over the sampled percents each divided by 100 once, in
\* sampled order, from starting principal 0; the percents are `years` values
\* return_mean + return_std * draw.
C7_FundIsComposition ==
    FundReturned =>
        /\ Len(sampled) = args.years
        /\ Len(ret.value) = Len(sampled)
        /\ \A i \in DOMAIN sampled :
              \E z \in StdNormal : sampled[i] = args.return_mean + args.return_std * z
        /\ \A i \in DOMAIN ret.value :
              LET prev == IF i = 1 THEN <<0, 1>> ELSE ret.value[i - 1]
              IN  ret.value[i] =
                    Norm((prev[1] + args.yearly_addition * prev[2]) * (100 + sampled[i]),
                         prev[2] * 100)

\* mean 10, std 50, addition 1000: draws 0 and -2 give percents 10 and -90,
\* values 1000 * 1.1 = 1100 and 2100 * 0.1 = 210
C7_Witness ==
    /\ FundReturned
    /\ args.yearly_addition = 1000
    /\ sampled = <<10, -90>>
    /\ ret.value = << <<1100, 1>>, <<210, 1>> >>

C18_SplitInvariant ==
    CalcReturned =>
        \A j \in 1..Len(args.returns_by_year) :
            LET c == RInt(args.contribution_per_year)
                r1 == SubSeq(args.returns_by_year, 1, j)
                r2 == SubSeq(args.returns_by_year, j + 1, Len(args.returns_by_year))
                T1 == calculate_fund_returns(c, r1, RInt(args.starting_principal))
            IN  /\ Len(T1) = j
                /\ ret.value = T1 \o calculate_fund_returns(c, r2, T1[Len(T1)])
                /\ T1 = SubSeq(ret.value, 1, j)

C18_ComposesOverConcatenation == [][args' = args]_vars /\ []C18_SplitInvariant

\* three years with non-zero rates, a non-zero contribution and a non-zero
\* starting principal
C18_Witness ==
    /\ CalcReturned
    /\ Len(ret.value) = 3
    /\ args.starting_principal # 0
    /\ args.contribution_per_year # 0
    /\ \A i \in 1..3 : args.returns_by_year[i] \notin {<<0, 1>>, <<-1, 1>>}

----------------------------------------------------------------------------
(* Properties of the notebook kernel, checked under Spec *)

BatchBound == pc = "idle" /\ "fund1_end_returns_per_trial" \in defined

\* C8: a finished run of the trial cell has called the fund model exactly
\* num_trials times and bound a batch of exactly num_trials values, the k-th
\* being the last entry of the k-th call's trajectory.
C8_BatchKeepsFinalValues ==
    BatchBound =>
        /\ calls = num_trials
        /\ Len(trajs) = num_trials
        /\ Len(batch) = num_trials
        /\ \A k \in DOMAIN batch :
              /\ k \in DOMAIN trajs
              /\ batch[k] = trajs[k][Len(trajs[k])]

\* two trials whose trajectories have an earlier year that differs from the
\* final one
C8_Witness ==
    /\ BatchBound
    /\ Len(batch) = 2
    /\ batch[1] # batch[2]
    /\ Len(trajs[1]) >= 2
    /\ trajs[1][1] # batch[1]
    /\ trajs[2][1] # batch[2]

\* the batch values that are at least t
AtLeast(t) == {k \in DOMAIN batch : batch[k][1] >= t * batch[k][2]}

\* C9: the reported goal probability for threshold t is the number of batch
\* values v >= t divided by num_trials; v = t counts.
C9_GoalProbability ==
    out.kind = "prob" =>
        out.value = Norm(Cardinality(AtLeast(out.threshold)), num_trials)

\* one value exactly at the threshold, one below it: probability 1/2
C9_Witness ==
    /\ out.kind = "prob"
    /\ Len(batch) = 2
    /\ \E k \in DOMAIN batch : batch[k] = RInt(out.threshold)
    /\ \E k \in DOMAIN batch : batch[k][1] < out.threshold * batch[k][2]
    /\ out.value = <<1, 2>>

\* C10: every reported goal probability is in [0, 1], and whenever a goal
\* probability can be reported the divisor num_trials is the number of
\* values in the batch.
C10_ProbabilityInUnitInterval ==
    /\ out.kind = "prob" =>
          /\ out.value[1] >= 0
          /\ out.value[1] <= out.value[2]
          /\ num_trials = Len(batch)
    /\ BatchBound => num_trials = Len(batch)

\* every value of a batch of two reaches the threshold: probability 1
C10_Witness ==
    /\ out.kind = "prob"
    /\ Len(batch) >= 2
    /\ out.value = <<1, 1>>

\* C11: for one batch, the probability reported for a threshold is at least
\* the probability of every higher threshold and at most that of every lower
\* one.
C11_ProbabilityMonotone ==
    out.kind = "prob" =>
        \A t \in Thresholds :
            /\ t <= out.threshold => RGe(GoalProbability(t), out.value)
            /\ t >= out.threshold => RGe(out.value, GoalProbability(t))

\* a report for the lower threshold that is strictly above what the higher
\* threshold gives on the same batch
C11_Witness ==
    /\ out.kind = "prob"
    /\ \E t \in Thresholds :
          /\ t > out.threshold
          /\ ~RGe(GoalProbability(t), out.value)
          /\ GoalProbability(t) # <<0, 1>>

\* batch[1] + ... + batch[k], added from the last index down
RECURSIVE SumUpTo(_)
SumUpTo(k) ==
    IF k = 0 THEN <<0, 1>>
    ELSE LET rest == SumUpTo(k - 1)
         IN  Norm(batch[k][1] * rest[2] + rest[1] * batch[k][2], batch[k][2] * rest[2])

\* C12: the expected value printed is the sum of all values of the batch
\* divided by the number of values in the batch, which is num_trials.
C12_ExpectedValueIsMean ==
    out.kind = "mean" =>
        /\ num_trials = Len(batch)
        /\ Len(batch) > 0
        /\ LET total == SumUpTo(Len(batch))
           IN  out.value = Norm(total[1], total[2] * Len(batch))

\* two different final values, 1000 and 2000, with mean 1500
C12_Witness ==
    /\ out.kind = "mean"
    /\ Len(batch) = 2
    /\ batch[1] # batch[2]
    /\ out.value = <<1500, 1>>

----------------------------------------------------------------------------
(* Properties of the notebook kernel on wider inputs *)

InvalidParams ==
    \/ fund.years < 0
    \/ fund.return_std < 0
    \/ ("num_trials" \in defined /\ num_trials <= 0)

\* C13: with an invalid parameter (years < 0, num_trials <= 0 or std < 0)
\* the trial cell ends in an error before anything is sampled: no trial
\* returns a trajectory, no batch is bound and no statistic is printed.
C13_InvalidFailsFast ==
    InvalidParams =>
        /\ trajs = <<>>
        /\ "fund1_end_returns_per_trial" \notin defined
        /\ out.kind \notin {"prob", "mean"}
        /\ (pc = "idle" /\ "num_trials" \in defined) => out.kind = "raise"

TrialErrors == {"IndexError", "ValueError"}

\* C15: with years >= 0, std >= 0 and num_trials >= 1 no invocation of the
\* fund model in the trial cell fails: each call made, the step taking the
\* last element included, has added one value to the list being built.
C15_TrialCannotFail ==
    /\ out.exc \notin TrialErrors
    /\ pc = "trials" => Len(acc) = calls

\* C16: a batch name that is bound holds all num_trials final values; a
\* trial cell that raised has bound no batch, and every statistic printed
\* was computed from a batch of num_trials values.
C16_NoPartialBatch ==
    /\ BatchBound =>
          /\ Len(batch) = num_trials
          /\ \A k \in DOMAIN batch : k \in DOMAIN trajs /\ batch[k] = Last(trajs[k])
    /\ out.exc \in TrialErrors => "fund1_end_returns_per_trial" \notin defined
    /\ out.kind \in {"prob", "mean"} => Len(batch) = num_trials

\* a trial cell asked for two trials has raised and left no batch behind
C16_Witness ==
    /\ pc = "idle"
    /\ out.exc \in TrialErrors
    /\ num_trials = 2
    /\ calls = 1
    /\ "fund1_end_returns_per_trial" \notin defined

----------------------------------------------------------------------------
(* Properties of the trial cell with the generator explicit, under SpecRng *)

\* where the generator stood when the running (or last) trial cell began
RunStart == rng.pos - calls * fund.years

\* the percents trial k of the run is given when the generator stands at p
PercentsAt(p) ==
    [i \in 1..fund.years |-> fund.return_mean + fund.return_std * rng.stream[p + i]]

\* the accumulation of the fund's yearly addition over percents, from 0
IsFundTrajectory(trajectory, percents) ==
    /\ Len(trajectory) = Len(percents)
    /\ \A i \in DOMAIN trajectory :
          LET prev == IF i = 1 THEN <<0, 1>> ELSE trajectory[i - 1]
          IN  trajectory[i] =
                Norm((prev[1] + fund.yearly_addition * prev[2]) * (100 + percents[i]),
                     prev[2] * 100)

\* C17 as stated: no trial reads state another trial wrote, the random
\* source included, so each trial's trajectory is what it would be had the
\* trial been the first of its run.
C17_TrialsShareNothing ==
    /\ ~rng.shared_read
    /\ \A k \in DOMAIN trajs : IsFundTrajectory(trajs[k], PercentsAt(RunStart))

\* C17 as amended: principal and trajectory are made anew by every call
\* (each trajectory starts from 0 and has `years` values), and the only
\* state one trial leaves to the next is the global generator: trial k of a
\* run draws the `years` stream values after those the earlier trials drew.
C17_OnlyGeneratorShared ==
    /\ RunStart >= 0
    /\ \A k \in DOMAIN trajs :
          IsFundTrajectory(trajs[k], PercentsAt(RunStart + (k - 1) * fund.years))
    /\ Len(trajs) >= 2 => rng.shared_read

\* two trials of one run whose trajectories differ because the second drew
\* from where the first left the generator
C17_Witness ==
    /\ Len(trajs) = 2
    /\ trajs[1] # trajs[2]
    /\ rng.shared_read
    /\ rng.pos = 2 * fund.years
====
